---- MODULE Spec2Model ----
(***************************************************************************)
(* Model of the GeoGenie similarity engine (scripts/search_image.py:       *)
(* ImageSearch) and of the request handlers of main.py that drive it.      *)
(*                                                                         *)
(* The process "api" is the uvicorn process of main.py.  Its handlers are  *)
(* coroutines of one event loop (every endpoint is `async def`) and share  *)
(* the engine singleton of get_search_engine().  The process can be killed *)
(* and started again; the two persisted files data/landmarks_db.faiss and  *)
(* data/landmarks_metadata.pkl outlive it.                                 *)
(*                                                                         *)
(* An embedding is [dim, dir]: its length and, for the unit vectors, the   *)
(* direction as a multiple of 60 degrees.  Distances and confidences are   *)
(* in thousandths.                                                         *)
(***************************************************************************)
EXTENDS Integers, Sequences, FiniteSets, TLC

\* ------------------------------------------------------------------ bounds
MaxRequests == 4
MaxFaults == 1
MaxFairRequests == 2
MaxCalls == 3
MaxFeedbackRequests == 3
MaxNameLen == 4

\* ------------------------------------------------------- program constants
Dimension == 512
DefaultThreshold == 700
RecognizeThreshold == 600
GpsConfidence == 950

\* ------------------------------------------------------------ input sets
Procs == {"api"}
Tasks == {"h1", "h2"}
ProcOf(t) == "api"
Names == {"P", "Q"}
Dirs == {0, 1}
Paths == {"r1", "r2", "r3", "r4"}
Ks == {1, 2}
\* thresholds handed to get_best_match: the one of recognize_landmark and one
\* that a reachable confidence meets exactly
Thresholds == {500, RecognizeThreshold}
\* an Optional value is a sequence of length 0 (None) or 1
None == <<>>
Lats == {None, <<0>>, <<12>>}
Lons == {None, <<77>>}

\* embedder.generate_embedding(Image.open(path)): the embedding is a function of
\* the image file; r3 stands for an image embedded by a model of another width,
\* r4 for a query image that points away from every stored one
Embed(path) == IF path = "r1" THEN [dim |-> Dimension, dir |-> 0]
               ELSE IF path = "r2" THEN [dim |-> Dimension, dir |-> 1]
               ELSE IF path = "r4" THEN [dim |-> Dimension, dir |-> 3]
               ELSE [dim |-> 256, dir |-> 0]

VARIABLES
    index,        \* per process: self.index, the vectors in insertion order
    metadata,     \* per process: self.metadata, the catalog
    constructed,  \* per process: the engine object exists (_search_engine is set)
    loaded,       \* per process: which branch _load_database took and what it accepted
    idxFile,      \* the file at db_path
    metaFile,     \* the file at metadata_path
    pc,           \* per task: position in its handler
    op,           \* per task: the request being served
    ret,          \* per task: how add_landmark ended
    results,      \* per task: what search returned
    running,      \* per process: the task that holds the (single) thread
    saved,        \* history: the in-memory pairs on which a save was started
    nreq,         \* number of requests received
    nfault,       \* number of crashes and write failures injected
    gps,          \* per task: the coordinates recognize_landmark resolved
    geo,          \* per task: what the geocoding provider answered
    outcome,      \* per task: the RecognitionResponse
    calls,        \* history, per task: the collaborators invoked, in order
    ninst,        \* history, per process: the ImageSearch objects created
    now,          \* time.time(), in milliseconds
    lastRequestTime,  \* Geocoder.last_request_time
    sent,         \* history: when the last two requests went out to the provider
    ncalls,       \* number of reverse_geocode calls made
    rawName,      \* /landmarks/add: the name the user typed, as characters
    normName,     \* /landmarks/add: norm = normalize_name(name)
    storedName,   \* /landmarks/add: Landmark.name as create_landmark stored it
    namePc,       \* /landmarks/add: position in the handler
    landmarks,    \* table Landmark: the names, a row's id is its position
    images,       \* table LandmarkImage: landmark_id and file of every record
    imageFiles    \* the image files under LANDMARKS_DIR

vars == <<index, metadata, constructed, loaded, idxFile, metaFile,
          pc, op, ret, results, running, saved, nreq, nfault,
          gps, geo, outcome, calls, ninst,
          now, lastRequestTime, sent, ncalls,
          rawName, normName, storedName, namePc,
          landmarks, images, imageFiles>>

engineVars == <<index, metadata, constructed, loaded>>
diskVars == <<idxFile, metaFile>>
pipeVars == <<gps, geo, outcome, calls>>
clockVars == <<now, lastRequestTime, sent, ncalls>>
\* what the handlers of the recognition service and the engine do not touch
nameVars == <<rawName, normName, storedName, namePc>>
dbVars == <<landmarks, images, imageFiles>>
sideVars == <<clockVars, nameVars, dbVars>>
\* the state of the recognition service and its engine
serviceVars == <<index, metadata, constructed, loaded, idxFile, metaFile,
                 pc, op, ret, results, running, saved, nreq, nfault,
                 gps, geo, outcome, calls, ninst>>

\* ------------------------------------------------------------ helpers
MkOp(kind, n, r, k, th, lat, lon) ==
    [kind |-> kind, name |-> n, emb |-> Embed(r), path |-> r, k |-> k, th |-> th,
     lat |-> lat, lon |-> lon]
NoOp == MkOp("none", "P", "r1", 1, DefaultThreshold, None, None)
NoLoad == [branch |-> "none", index |-> <<>>, metadata |-> <<>>]
Absent == [st |-> "absent", data |-> <<>>]
Torn == [st |-> "torn", data |-> <<>>]
File(d) == [st |-> "ok", data |-> d]

Min(a, b) == IF a < b THEN a ELSE b
Max(a, b) == IF a > b THEN a ELSE b

\* Squared L2 distance of two unit vectors whose directions differ by a
\* multiple of 60 degrees: 2 - 2cos(theta), in thousandths.
DistTable == <<0, 1000, 3000, 4000, 3000, 1000>>
Dist(a, b) == DistTable[((a - b + 6) % 6) + 1]

\* for md in self.metadata: if md.get("place_name") == place_name
HasPlaceByPath(md, name) == \E i \in DOMAIN md : md[i].image_path = name
HasPlace(md, name) == \E i \in DOMAIN md : md[i].place_name = name

\* if embedding.shape[0] != self.dimension: raise ValueError
DimensionIgnored(e) == FALSE
DimensionMismatch(e) == e.dim # Dimension

\* search has no check of its own: on an empty index it returns before the
\* vector is looked at, otherwise index.search rejects a vector of another width
SearchFailsOnWidth(I, e) == e.dim # Dimension
SearchFails(I, e) == Len(I) > 0 /\ e.dim # Dimension

\* the coroutine gives up the event loop only at an await or when it returns
YieldPointInAdd(c) == c \in {"idle", "await_read", "add_index"}
YieldPointInSave(c) == c \in {"idle", "await_read", "save_meta"}
YieldPointInConstructor(c) == c \in {"idle", "await_read", "load_check"}
YieldPoint(c) == c \in {"idle", "await_read"}

CanRun(t) == /\ pc[t] # "idle"
             /\ running[ProcOf(t)] \in {t, "none"}

Advance(t, c) ==
    /\ pc' = [pc EXCEPT ![t] = c]
    /\ running' = [running EXCEPT ![ProcOf(t)] = IF YieldPoint(c) THEN "none" ELSE t]

\* where a handler goes once it holds the engine
Entry(t) == IF op[t].kind = "add" THEN "add_check"
            ELSE IF op[t].kind = "search" THEN "search"
            ELSE IF op[t].kind = "best" THEN "best"
            ELSE IF op[t].kind = "upload" THEN "upload_embed" ELSE "embed"

\* ------------------------------------------------------------ search
\* faiss IndexFlatL2.search: the min(k, ntotal) nearest positions, nearest first
\* faiss.IndexFlatL2 orders by distance; an inner-product index would not
CloserByInnerProduct(I, q, i, j) == \/ Dist(q, I[i]) > Dist(q, I[j])
                                    \/ (Dist(q, I[i]) = Dist(q, I[j]) /\ i < j)
Closer(I, q, i, j) == \/ Dist(q, I[i]) < Dist(q, I[j])
                      \/ (Dist(q, I[i]) = Dist(q, I[j]) /\ i < j)
Rank(I, q, i) == Cardinality({j \in DOMAIN I : Closer(I, q, j, i)}) + 1
IndexSearch(I, q, k) ==
    [r \in 1..Min(k, Len(I)) |-> CHOOSE i \in DOMAIN I : Rank(I, q, i) = r]

\* similarity = max(0.0, 1.0 - (distance / 2.0))
SimilarityUnclamped(d) == 1000 - (d \div 2)
Similarity(d) == Max(0, 1000 - (d \div 2))

\* ImageSearch.search; idx is the 0-based position faiss returned
SearchAll(I, M, q, k) ==
    IF Len(I) = 0 THEN <<>>
    ELSE LET hits == IndexSearch(I, q, Len(I))
             Known(i) == i - 1 < Len(M)
             kept == SelectSeq(hits, Known)
         IN [n \in 1..Len(kept) |->
                [place_name |-> M[kept[n]].place_name,
                 confidence |-> Similarity(Dist(q, I[kept[n]])),
                 distance |-> Dist(q, I[kept[n]]),
                 metadata |-> M[kept[n]],
                 idx |-> kept[n] - 1]]
Search(I, M, q, k) ==
    IF Len(I) = 0 THEN <<>>
    ELSE LET hits == IndexSearch(I, q, k)
             Known(i) == i - 1 < Len(M)
             kept == SelectSeq(hits, Known)
         IN [n \in 1..Len(kept) |->
                [place_name |-> M[kept[n]].place_name,
                 confidence |-> Similarity(Dist(q, I[kept[n]])),
                 distance |-> Dist(q, I[kept[n]]),
                 metadata |-> M[kept[n]],
                 idx |-> kept[n] - 1]]

\* ImageSearch.get_best_match: the top result or None
GetBestMatchStrict(I, M, q, th) ==
    LET res == Search(I, M, q, 1)
    IN IF res # <<>> /\ res[1].confidence > th THEN <<res[1]>> ELSE None
GetBestMatch(I, M, q, th) ==
    LET res == Search(I, M, q, 1)
    IN IF res # <<>> /\ res[1].confidence >= th THEN <<res[1]>> ELSE None

\* ------------------------------------------------------------ recognize: helpers
\* a caller-supplied form value counts only if it is truthy: `if latitude and longitude`
Truthy(o) == o # None /\ o[1] # 0

Coordinates(lat, lon) == <<[lat |-> lat, lon |-> lon]>>

\* extract_gps_from_bytes(img_bytes): r2 carries a GPS tag, the others none;
\* every failure inside is caught and gives None
ExifGps(path) == IF path = "r2" THEN Coordinates(48, 2) ELSE None

\* what `requests.get(...)` and `response.json()` can produce: a network error
\* or timeout, a body that is not JSON, and JSON with or without names
\* (display_name is kept as its comma-separated parts)
NoResponse == [status |-> "none", tourism |-> "", display |-> <<>>]
Responses ==
    {[status |-> "timeout", tourism |-> "", display |-> <<>>],
     [status |-> "not_json", tourism |-> "", display |-> <<>>],
     [status |-> "ok", tourism |-> "", display |-> <<>>],
     [status |-> "ok", tourism |-> "Eiffel_Tower", display |-> <<"Eiffel_Tower", "Paris">>],
     [status |-> "ok", tourism |-> "", display |-> <<"Champ_de_Mars", "Paris">>]}

\* Geocoder.reverse_geocode: None on any exception, otherwise the first name
\* found, falling back to display_name.split(",")[0]
ReverseGeocode(resp) ==
    IF resp.status # "ok" THEN None
    ELSE <<[place_name |-> IF resp.tourism # "" THEN resp.tourism
                           ELSE IF resp.display = <<>> THEN ""
                           ELSE resp.display[1]]>>

\* if res:
HasResult(res) == res # None
\* if res and res.get("place_name"):
HasPlaceName(res) == res # None /\ res[1].place_name # ""

\* RecognitionResponse(..., confidence=best["confidence"], source="gps", ...)
GpsOutcomeWithUnitConfidence(name, coords) ==
    [place_name |-> name, confidence |-> 1000, source |-> "gps", coordinates |-> coords]
\* RecognitionResponse(place_name=res["place_name"], confidence=0.95, source="gps",
\*                     coordinates=list(gps))
GpsOutcome(name, coords) ==
    [place_name |-> name, confidence |-> GpsConfidence, source |-> "gps",
     coordinates |-> coords]

\* the two visual responses, with `coordinates=None`
VisualOutcomeWithoutCoordinates(best, coords) ==
    IF best # None
    THEN [place_name |-> best[1].place_name, confidence |-> best[1].confidence,
          source |-> "visual", coordinates |-> None]
    ELSE [place_name |-> "Unknown", confidence |-> 0, source |-> "visual",
          coordinates |-> None]
\* the two visual responses
VisualOutcome(best, coords) ==
    IF best # None
    THEN [place_name |-> best[1].place_name, confidence |-> best[1].confidence,
          source |-> "visual", coordinates |-> coords]
    ELSE [place_name |-> "Unknown", confidence |-> 0, source |-> "visual",
          coordinates |-> coords]

\* ------------------------------------------------------------ geocoder: time
\* self.min_interval = 1.0
MinInterval == 1000
\* the clock when the process starts: far from the 0 of last_request_time
StartTime == 5000
\* the time between two calls, and the time a call to the provider takes
\* (0 stands for a connection refused at once)
Gaps == {0, 100, 1000}
Latencies == {0, 100, 1000}

\* if time_since_last < self.min_interval: time.sleep(self.min_interval - time_since_last)
SendTime(t, last) == IF t - last < MinInterval THEN last + MinInterval ELSE t

\* self.last_request_time = time.time() is reached only after raise_for_status()
\* and response.json() have passed
Stamped(resp) == resp.status = "ok"

\* ------------------------------------------------------------ names
\* the letters a name is written in, lower case and upper case
LowerLetters == <<"a", "b", "k", "n", "o", "p", "q", "u", "w">>
UpperLetters == <<"A", "B", "K", "N", "O", "P", "Q", "U", "W">>

\* str.upper() and str.lower() of one character
Upper(c) == IF \E i \in DOMAIN LowerLetters : LowerLetters[i] = c
            THEN UpperLetters[CHOOSE i \in DOMAIN LowerLetters : LowerLetters[i] = c]
            ELSE c
Lower(c) == IF \E i \in DOMAIN UpperLetters : UpperLetters[i] = c
            THEN LowerLetters[CHOOSE i \in DOMAIN UpperLetters : UpperLetters[i] = c]
            ELSE c

\* name.strip().split(): the maximal runs without whitespace
RECURSIVE Split(_, _)
Split(s, word) ==
    IF s = <<>> THEN (IF word = <<>> THEN <<>> ELSE <<word>>)
    ELSE IF Head(s) = " "
         THEN (IF word = <<>> THEN <<>> ELSE <<word>>) \o Split(Tail(s), <<>>)
         ELSE Split(Tail(s), Append(word, Head(s)))

\* w.capitalize(): first character upper case, all the others lower case
Capitalize(w) == [i \in 1..Len(w) |-> IF i = 1 THEN Upper(w[i]) ELSE Lower(w[i])]

\* "_".join(...)
RECURSIVE Join(_)
Join(ws) == IF ws = <<>> THEN <<>>
            ELSE IF Len(ws) = 1 THEN ws[1]
            ELSE ws[1] \o <<"_">> \o Join(Tail(ws))

UnknownChars == <<"U", "n", "k", "n", "o", "w", "n">>

\* normalize_name(name)
NormalizeChars(s) ==
    IF s = <<>> THEN UnknownChars
    ELSE Join([i \in 1..Len(Split(s, <<>>)) |-> Capitalize(Split(s, <<>>)[i])])

\* the landmark names of the feedback requests, spelled out
KnownNames == {"p", "P", "unknown", "Unknown"}
Spell(n) == CASE n = "p" -> <<"p">>
              [] n = "P" -> <<"P">>
              [] n = "unknown" -> <<"u", "n", "k", "n", "o", "w", "n">>
              [] n = "Unknown" -> UnknownChars
Unspell(cs) == CHOOSE n \in KnownNames : Spell(n) = cs

\* normalize_name and str.lower on these names
NormalizeName(n) == Unspell(NormalizeChars(Spell(n)))
LowerName(n) == Unspell([i \in 1..Len(Spell(n)) |-> Lower(Spell(n)[i])])

\* crud.get_landmark_by_name: the first row whose lower-cased name is the
\* lower-cased canonical name (0: none), and the table after the casing fix
FindByName(L, name) ==
    LET hits == {i \in 1..Len(L) : LowerName(L[i]) = LowerName(NormalizeName(name))}
    IN IF hits = {} THEN 0 ELSE CHOOSE i \in hits : \A j \in hits : i <= j
FixCasing(L, name) ==
    IF FindByName(L, name) # 0 /\ L[FindByName(L, name)] # NormalizeName(name)
    THEN [L EXCEPT ![FindByName(L, name)] = NormalizeName(name)]
    ELSE L

\* the names a user types into the form
NameAlphabet == {"a", "B", " ", "_"}
NameInputs == UNION {[1..n -> NameAlphabet] : n \in 0..MaxNameLen}

\* ------------------------------------------------------------ initial state
NamesIdle ==
    /\ rawName = <<>>
    /\ normName = <<>>
    /\ storedName = <<>>
    /\ namePc = "idle"

\* the service before its first request
ServiceInit ==
    /\ index = [p \in Procs |-> <<>>]
    /\ metadata = [p \in Procs |-> <<>>]
    /\ constructed = [p \in Procs |-> FALSE]
    /\ loaded = [p \in Procs |-> NoLoad]
    /\ idxFile = Absent
    /\ metaFile = Absent
    /\ pc = [t \in Tasks |-> "idle"]
    /\ op = [t \in Tasks |-> NoOp]
    /\ ret = [t \in Tasks |-> "none"]
    /\ results = [t \in Tasks |-> <<>>]
    /\ running = [p \in Procs |-> "none"]
    /\ saved = {}
    /\ nreq = 0
    /\ nfault = 0
    /\ gps = [t \in Tasks |-> None]
    /\ geo = [t \in Tasks |-> NoResponse]
    /\ outcome = [t \in Tasks |-> None]
    /\ calls = [t \in Tasks |-> <<>>]
    /\ ninst = [p \in Procs |-> 0]
    /\ now = StartTime
    /\ lastRequestTime = 0
    /\ sent = <<>>
    /\ ncalls = 0
    /\ landmarks = <<>>
    /\ images = <<>>
    /\ imageFiles = {}

Init ==
    /\ ServiceInit
    /\ NamesIdle

\* ------------------------------------------------------------ requests
\* the calls made on the engine: add_landmark by a feedback upload or feedback
\* meta, search and get_best_match by a client that has an embedding at hand
EngineOps ==
    {MkOp("add", n, r, 1, DefaultThreshold, None, None) :
        n \in Names, r \in {"r1", "r2"}}
    \cup {MkOp("add", "P", "r3", 1, DefaultThreshold, None, None)}
    \cup {MkOp("search", "P", r, k, DefaultThreshold, None, None) :
        r \in {"r1", "r2"}, k \in Ks}
    \cup {MkOp("search", "P", r, 1, DefaultThreshold, None, None) : r \in {"r3", "r4"}}
    \cup {MkOp("best", "P", r, 1, th, None, None) :
        r \in {"r1", "r2"}, th \in Thresholds}

RequestOf(t, ops) ==
    /\ pc[t] = "idle"
    /\ nreq < MaxRequests
    /\ nreq' = nreq + 1
    /\ t = "h2" => pc["h1"] # "idle"
    /\ \E o \in ops : op' = [op EXCEPT ![t] = o]
    /\ pc' = [pc EXCEPT ![t] = "ready"]
    /\ UNCHANGED <<sideVars, ninst, pipeVars, engineVars, diskVars, ret, results, running, saved, nfault>>

Request(t) == RequestOf(t, EngineOps)

\* get_search_engine(): if _search_engine is None: _search_engine = ImageSearch()
\* (the position the caller continues at)
GetSearchEngine(t) == IF constructed[ProcOf(t)] THEN Entry(t) ELSE "load_check"

\* the coroutine is started: recognize_landmark suspends at `await image.read()`,
\* the feedback handlers go straight to the engine
Start(t) ==
    /\ pc[t] = "ready"
    /\ CanRun(t)
    /\ Advance(t, IF op[t].kind = "add" THEN GetSearchEngine(t)
                  ELSE IF op[t].kind = "upload" THEN "resolve_landmark"
                  ELSE "await_read")
    /\ UNCHANGED <<sideVars, ninst, pipeVars, engineVars, diskVars, op, ret, results, saved, nreq, nfault>>

\* recognize_landmark continues after the await: img_pil = Image.open(...)
Resume(t) ==
    /\ pc[t] = "await_read"
    /\ CanRun(t)
    /\ Advance(t, IF op[t].kind = "recognize" THEN "resolve_gps" ELSE GetSearchEngine(t))
    /\ UNCHANGED <<sideVars, ninst, pipeVars, engineVars, diskVars, op, ret, results, saved, nreq, nfault>>

\* ------------------------------------------------------------ _load_database
Constructed(p, branch, I, M) ==
    /\ index' = [index EXCEPT ![p] = I]
    /\ metadata' = [metadata EXCEPT ![p] = M]
    /\ constructed' = [constructed EXCEPT ![p] = TRUE]
    /\ loaded' = [loaded EXCEPT ![p] = [branch |-> branch, index |-> I, metadata |-> M]]

\* a loader that writes the files of the empty database it creates
LoadCheckAndSave(t) ==
    LET p == ProcOf(t) IN
    /\ pc[t] = "load_check"
    /\ CanRun(t)
    /\ IF idxFile.st # "absent" /\ metaFile.st # "absent"
       THEN /\ Advance(t, "load_index")
            /\ UNCHANGED <<engineVars, diskVars>>
       ELSE /\ Constructed(p, "created", <<>>, <<>>)
            /\ idxFile' = File(<<>>)
            /\ metaFile' = File(<<>>)
            /\ Advance(t, Entry(t))
    /\ UNCHANGED <<sideVars, gps, geo, outcome, op, ret, results, saved, nreq, nfault>>
    /\ ninst' = [ninst EXCEPT ![p] = @ + 1]
    /\ calls' = [calls EXCEPT ![t] = Append(@, "ImageSearch")]
\* if os.path.exists(self.db_path) and os.path.exists(self.metadata_path)
LoadCheck(t) ==
    LET p == ProcOf(t) IN
    /\ pc[t] = "load_check"
    /\ CanRun(t)
    /\ IF idxFile.st # "absent" /\ metaFile.st # "absent"
       THEN /\ Advance(t, "load_index")
            /\ UNCHANGED engineVars
       ELSE /\ Constructed(p, "created", <<>>, <<>>)
            /\ Advance(t, Entry(t))
    /\ UNCHANGED <<sideVars, gps, geo, outcome, diskVars, op, ret, results, saved, nreq, nfault>>
    /\ ninst' = [ninst EXCEPT ![p] = @ + 1]
    /\ calls' = [calls EXCEPT ![t] = Append(@, "ImageSearch")]

\* self.index = faiss.read_index(self.db_path)
LoadIndex(t) ==
    LET p == ProcOf(t) IN
    /\ pc[t] = "load_index"
    /\ CanRun(t)
    /\ IF idxFile.st = "ok"
       THEN /\ index' = [index EXCEPT ![p] = idxFile.data]
            /\ UNCHANGED <<metadata, constructed, loaded>>
            /\ Advance(t, "load_meta")
       ELSE /\ Constructed(p, "error", <<>>, <<>>)
            /\ Advance(t, Entry(t))
    /\ UNCHANGED <<sideVars, ninst, pipeVars, diskVars, op, ret, results, saved, nreq, nfault>>

\* self.metadata = pickle.load(f)
LoadMeta(t) ==
    LET p == ProcOf(t) IN
    /\ pc[t] = "load_meta"
    /\ CanRun(t)
    /\ IF metaFile.st = "ok"
       THEN Constructed(p, "loaded", index[p], metaFile.data)
       ELSE Constructed(p, "error", <<>>, <<>>)
    /\ Advance(t, Entry(t))
    /\ UNCHANGED <<sideVars, ninst, pipeVars, diskVars, op, ret, results, saved, nreq, nfault>>

\* ------------------------------------------------------------ add_landmark
\* the dimension check and the duplicate scan
AddCheck(t) ==
    LET p == ProcOf(t) IN
    /\ pc[t] = "add_check"
    /\ CanRun(t)
    /\ IF DimensionMismatch(op[t].emb)
       THEN /\ ret' = [ret EXCEPT ![t] = "ValueError"]
            /\ Advance(t, "add_return")
       ELSE IF HasPlace(metadata[p], op[t].name)
       THEN /\ ret' = [ret EXCEPT ![t] = "skipped"]
            /\ Advance(t, "add_return")
       ELSE /\ ret' = ret
            /\ Advance(t, "add_index")
    /\ UNCHANGED <<sideVars, ninst, pipeVars, engineVars, diskVars, op, results, saved, nreq, nfault>>

\* an index that puts the new vector first
IndexAddFront(t) ==
    LET p == ProcOf(t) IN
    /\ pc[t] = "add_index"
    /\ CanRun(t)
    /\ index' = [index EXCEPT ![p] = <<op[t].emb.dir>> \o @]
    /\ Advance(t, "add_meta")
    /\ UNCHANGED <<sideVars, ninst, pipeVars, metadata, constructed, loaded, diskVars, op, ret, results,
                   saved, nreq, nfault>>
\* self.index.add(embedding)
IndexAdd(t) ==
    LET p == ProcOf(t) IN
    /\ pc[t] = "add_index"
    /\ CanRun(t)
    /\ index' = [index EXCEPT ![p] = Append(@, op[t].emb.dir)]
    /\ Advance(t, "add_meta")
    /\ UNCHANGED <<sideVars, ninst, pipeVars, metadata, constructed, loaded, diskVars, op, ret, results,
                   saved, nreq, nfault>>

\* self.metadata.append({... "index": self.index.ntotal - 1})
MetaAppend(t) ==
    LET p == ProcOf(t) IN
    /\ pc[t] = "add_meta"
    /\ CanRun(t)
    /\ metadata' = [metadata EXCEPT ![p] =
           Append(@, [place_name |-> op[t].name, image_path |-> op[t].path,
                      index |-> Len(index[p]) - 1])]
    /\ Advance(t, "save_index")
    /\ UNCHANGED <<sideVars, ninst, pipeVars, index, constructed, loaded, diskVars, op, ret, results,
                   saved, nreq, nfault>>

\* ------------------------------------------------------------ _save_database
\* faiss.write_index(self.index, self.db_path); a failure is caught and printed
SaveIndex(t) ==
    LET p == ProcOf(t) IN
    /\ pc[t] = "save_index"
    /\ CanRun(t)
    /\ saved' = saved \cup {<<index[p], metadata[p]>>}
    /\ \/ /\ idxFile' = File(index[p])
          /\ Advance(t, "save_meta")
          /\ UNCHANGED <<ret, nfault>>
       \/ /\ nfault < MaxFaults
          /\ nfault' = nfault + 1
          /\ idxFile' \in {idxFile, Torn}
          /\ ret' = [ret EXCEPT ![t] = "added"]
          /\ Advance(t, "add_return")
    /\ UNCHANGED <<sideVars, ninst, pipeVars, engineVars, metaFile, op, results, nreq>>

\* with open(self.metadata_path, 'wb') as f: pickle.dump(self.metadata, f)
SaveMeta(t) ==
    LET p == ProcOf(t) IN
    /\ pc[t] = "save_meta"
    /\ CanRun(t)
    /\ \/ /\ metaFile' = File(metadata[p])
          /\ UNCHANGED nfault
       \/ /\ nfault < MaxFaults
          /\ nfault' = nfault + 1
          /\ metaFile' \in {metaFile, Torn}
    /\ ret' = [ret EXCEPT ![t] = "added"]
    /\ Advance(t, "add_return")
    /\ UNCHANGED <<sideVars, ninst, pipeVars, engineVars, idxFile, op, results, saved, nreq>>

\* ------------------------------------------------------------ search
SearchStep(t) ==
    LET p == ProcOf(t) IN
    /\ pc[t] = "search"
    /\ CanRun(t)
    /\ IF SearchFails(index[p], op[t].emb)
       THEN /\ ret' = [ret EXCEPT ![t] = "AssertionError"]
            /\ UNCHANGED results
       ELSE /\ ret' = [ret EXCEPT ![t] = "ok"]
            /\ results' = [results EXCEPT ![t] =
                   Search(index[p], metadata[p], op[t].emb.dir, op[t].k)]
    /\ Advance(t, "search_return")
    /\ UNCHANGED <<sideVars, ninst, pipeVars, engineVars, diskVars, op, saved, nreq, nfault>>

\* a direct call of get_best_match(embedding, threshold)
BestStep(t) ==
    LET p == ProcOf(t) IN
    /\ pc[t] = "best"
    /\ op[t].kind = "best"
    /\ CanRun(t)
    /\ IF SearchFails(index[p], op[t].emb)
       THEN /\ ret' = [ret EXCEPT ![t] = "AssertionError"]
            /\ UNCHANGED results
       ELSE /\ ret' = [ret EXCEPT ![t] = "ok"]
            /\ results' = [results EXCEPT ![t] =
                   GetBestMatch(index[p], metadata[p], op[t].emb.dir, op[t].th)]
    /\ Advance(t, "search_return")
    /\ UNCHANGED <<sideVars, ninst, pipeVars, engineVars, diskVars, op, saved, nreq, nfault>>

\* ------------------------------------------------------------ recognize_landmark
\* the requests of the recognition service: /recognize with or without form
\* coordinates, and the feedback uploads that fill the index
RecognizeOps ==
    {MkOp("recognize", "P", r, 1, RecognizeThreshold, lat, lon) :
        r \in {"r1", "r2"}, lat \in Lats, lon \in Lons}
    \cup {MkOp("add", "P", "r1", 1, DefaultThreshold, None, None),
          MkOp("add", "Q", "r2", 1, DefaultThreshold, None, None)}

RequestRecognize(t) == RequestOf(t, RecognizeOps)

\* gps = (latitude, longitude) if latitude and longitude
\*       else extract_gps_from_bytes(img_bytes)
ResolveGps(t) ==
    /\ pc[t] = "resolve_gps"
    /\ CanRun(t)
    /\ IF Truthy(op[t].lat) /\ Truthy(op[t].lon)
       THEN /\ gps' = [gps EXCEPT ![t] = Coordinates(op[t].lat[1], op[t].lon[1])]
            /\ UNCHANGED calls
       ELSE /\ gps' = [gps EXCEPT ![t] = ExifGps(op[t].path)]
            /\ calls' = [calls EXCEPT ![t] = Append(@, "exif")]
    /\ Advance(t, IF gps'[t] # None THEN "geocode" ELSE "visual")
    /\ UNCHANGED <<sideVars, ninst, engineVars, diskVars, op, ret, results, saved, nreq, nfault,
                   geo, outcome>>

\* res = geo.reverse_geocode(gps[0], gps[1]) and the gps response
GeoLookup(t) ==
    /\ pc[t] = "geocode"
    /\ CanRun(t)
    /\ \E resp \in Responses :
          /\ geo' = [geo EXCEPT ![t] = resp]
          /\ IF HasPlaceName(ReverseGeocode(resp))
             THEN /\ outcome' = [outcome EXCEPT ![t] =
                         <<GpsOutcome(ReverseGeocode(resp)[1].place_name, gps[t])>>]
                  /\ ret' = [ret EXCEPT ![t] = "ok"]
                  /\ Advance(t, "recognize_return")
             ELSE /\ UNCHANGED <<outcome, ret>>
                  /\ Advance(t, "visual")
    /\ calls' = [calls EXCEPT ![t] = Append(@, "geocoder")]
    /\ UNCHANGED <<sideVars, ninst, engineVars, diskVars, op, results, saved, nreq, nfault, gps>>

\* embedder = get_embedder(); search = get_search_engine()
VisualStage(t) ==
    /\ pc[t] = "visual"
    /\ CanRun(t)
    /\ Advance(t, GetSearchEngine(t))
    /\ UNCHANGED <<sideVars, ninst, engineVars, diskVars, op, ret, results, saved, nreq, nfault, pipeVars>>

\* a handler that starts the visual stage again after an exception
OnExceptionRetry(t) == "visual"
\* except Exception as e: raise HTTPException(500, str(e)): the request ends
OnException(t) == "recognize_return"

\* emb = embedder.generate_embedding(img_pil); an exception becomes
\* HTTPException(500)
EmbedStep(t) ==
    /\ pc[t] = "embed"
    /\ CanRun(t)
    /\ \/ /\ Advance(t, "match")
          /\ UNCHANGED ret
       \/ /\ ret' = [ret EXCEPT ![t] = "HTTP500"]
          /\ Advance(t, OnException(t))
    /\ calls' = [calls EXCEPT ![t] = Append(@, "embedder")]
    /\ UNCHANGED <<sideVars, ninst, engineVars, diskVars, op, results, saved, nreq, nfault,
                   gps, geo, outcome>>

\* best = search.get_best_match(emb, threshold=0.6) and the visual responses
MatchStep(t) ==
    LET p == ProcOf(t) IN
    /\ pc[t] = "match"
    /\ CanRun(t)
    /\ IF SearchFails(index[p], op[t].emb)
       THEN /\ ret' = [ret EXCEPT ![t] = "HTTP500"]
            /\ UNCHANGED outcome
       ELSE /\ ret' = [ret EXCEPT ![t] = "ok"]
            /\ outcome' = [outcome EXCEPT ![t] =
                   <<VisualOutcome(GetBestMatch(index[p], metadata[p], op[t].emb.dir,
                                                RecognizeThreshold), gps[t])>>]
    /\ calls' = [calls EXCEPT ![t] = Append(@, "engine")]
    /\ Advance(t, "recognize_return")
    /\ UNCHANGED <<sideVars, ninst, engineVars, diskVars, op, results, saved, nreq, nfault, gps, geo>>

\* ------------------------------------------------------------ upload_feedback
\* the form of /feedback/upload, with the handler's landmark and img_record
MkUpload(lid, lname, r) ==
    [lid |-> lid, lname |-> lname, landmark_id |-> 0, image_id |-> 0]
    @@ MkOp("upload", "P", r, 1, DefaultThreshold, None, None)

\* uploads with and without a landmark, and /recognize of an image without
\* GPS tag
FeedbackOps ==
    {MkUpload(None, ln, r) : ln \in {None, <<"p">>, <<"unknown">>}, r \in {"r1", "r2"}}
    \cup {MkUpload(<<1>>, None, "r1")}
    \cup {MkOp("recognize", "P", "r1", 1, RecognizeThreshold, None, None)}

RequestFeedback(t) == nreq < MaxFeedbackRequests /\ RequestOf(t, FeedbackOps)

\* if landmark_id: crud.get_landmark (404 when missing) else
\* norm = normalize_name(landmark_name) if landmark_name else "unknown";
\* crud.get_landmark_by_name(db, norm) or crud.create_landmark(db, norm, ...)
ResolveLandmark(t) ==
    LET o == op[t]
        norm == IF o.lname # None /\ o.lname[1] # ""
                THEN NormalizeName(o.lname[1]) ELSE "unknown"
        found == FindByName(landmarks, norm)
    IN
    /\ pc[t] = "resolve_landmark"
    /\ CanRun(t)
    /\ IF o.lid # None /\ o.lid[1] # 0
       THEN IF o.lid[1] \in 1..Len(landmarks)
            THEN /\ op' = [op EXCEPT ![t].landmark_id = o.lid[1]]
                 /\ Advance(t, "save_image")
                 /\ UNCHANGED <<landmarks, ret>>
            ELSE /\ ret' = [ret EXCEPT ![t] = "HTTP500"]
                 /\ Advance(t, "upload_return")
                 /\ UNCHANGED <<landmarks, op>>
       ELSE IF found = 0
            THEN /\ landmarks' = Append(landmarks, NormalizeName(norm))
                 /\ op' = [op EXCEPT ![t].landmark_id = Len(landmarks) + 1]
                 /\ Advance(t, "save_image")
                 /\ UNCHANGED ret
            ELSE /\ landmarks' = FixCasing(landmarks, norm)
                 /\ op' = [op EXCEPT ![t].landmark_id = found]
                 /\ Advance(t, "save_image")
                 /\ UNCHANGED ret
    /\ UNCHANGED <<clockVars, nameVars, images, imageFiles, ninst, pipeVars, engineVars,
                   diskVars, results, saved, nreq, nfault>>

\* crud.save_uploaded_file_to_landmark and crud.save_landmark_image; a write
\* that fails ends the request with HTTPException(500)
SaveImage(t) ==
    LET o == op[t] IN
    /\ pc[t] = "save_image"
    /\ CanRun(t)
    /\ \/ /\ imageFiles' = imageFiles \cup
                 {[folder |-> landmarks[o.landmark_id], path |-> o.path]}
          /\ images' = Append(images, [landmark_id |-> o.landmark_id, path |-> o.path])
          /\ op' = [op EXCEPT ![t].image_id = Len(images) + 1]
          /\ Advance(t, "update_index")
          /\ UNCHANGED <<ret, nfault>>
       \/ /\ nfault < MaxFaults
          /\ nfault' = nfault + 1
          /\ ret' = [ret EXCEPT ![t] = "HTTP500"]
          /\ Advance(t, "upload_return")
          /\ UNCHANGED <<imageFiles, images, op>>
    /\ UNCHANGED <<clockVars, nameVars, landmarks, ninst, pipeVars, engineVars,
                   diskVars, results, saved, nreq>>

\* if landmark.name == "unknown": skip, else get_embedder(), get_search_engine()
UpdateIndex(t) ==
    /\ pc[t] = "update_index"
    /\ CanRun(t)
    /\ IF landmarks[op[t].landmark_id] = "unknown"
       THEN /\ ret' = [ret EXCEPT ![t] = "placeholder"]
            /\ Advance(t, "upload_respond")
       ELSE /\ UNCHANGED ret
            /\ Advance(t, GetSearchEngine(t))
    /\ UNCHANGED <<sideVars, ninst, pipeVars, engineVars, diskVars, op, results, saved,
                   nreq, nfault>>

\* a handler in which a failed embedding ends the request
UploadEmbedUncaught(t) ==
    /\ pc[t] = "upload_embed"
    /\ CanRun(t)
    /\ \/ /\ op' = [op EXCEPT ![t].name = landmarks[op[t].landmark_id]]
          /\ Advance(t, "add_check")
          /\ UNCHANGED ret
       \/ /\ ret' = [ret EXCEPT ![t] = "HTTP500"]
          /\ Advance(t, "upload_return")
          /\ UNCHANGED op
    /\ UNCHANGED <<sideVars, ninst, pipeVars, engineVars, diskVars, results, saved,
                   nreq, nfault>>
\* pil_img = Image.open(saved_path); emb = embedder.generate_embedding(pil_img);
\* search.add_landmark(embedding=emb, place_name=landmark.name, ...) follows;
\* an exception is caught and printed
UploadEmbed(t) ==
    /\ pc[t] = "upload_embed"
    /\ CanRun(t)
    /\ \/ /\ op' = [op EXCEPT ![t].name = landmarks[op[t].landmark_id]]
          /\ Advance(t, "add_check")
          /\ UNCHANGED ret
       \/ /\ ret' = [ret EXCEPT ![t] = "embed_failed"]
          /\ Advance(t, "upload_respond")
          /\ UNCHANGED op
    /\ UNCHANGED <<sideVars, ninst, pipeVars, engineVars, diskVars, results, saved,
                   nreq, nfault>>

\* return {"status": "success", "landmark_id": ..., "image_id": img_record.id, ...}
UploadRespond(t) ==
    /\ \/ pc[t] = "upload_respond"
       \/ pc[t] = "add_return" /\ op[t].kind = "upload"
    /\ CanRun(t)
    /\ outcome' = [outcome EXCEPT ![t] =
           <<[status |-> "success", landmark_id |-> op[t].landmark_id,
              image_id |-> op[t].image_id]>>]
    /\ Advance(t, "upload_return")
    /\ UNCHANGED <<sideVars, ninst, gps, geo, calls, engineVars, diskVars, op, ret,
                   results, saved, nreq, nfault>>

\* the memory of a process that ends
Forget(p) ==
    /\ index' = [index EXCEPT ![p] = <<>>]
    /\ metadata' = [metadata EXCEPT ![p] = <<>>]
    /\ constructed' = [constructed EXCEPT ![p] = FALSE]
    /\ loaded' = [loaded EXCEPT ![p] = NoLoad]

\* the handler returns its response; the engine singleton lives on
Return(t) ==
    /\ pc[t] \in {"add_return", "search_return", "recognize_return", "upload_return"}
    /\ pc[t] = "add_return" => op[t].kind = "add"
    /\ CanRun(t)
    /\ Advance(t, "idle")
    /\ op' = [op EXCEPT ![t] = NoOp]
    /\ ret' = [ret EXCEPT ![t] = "none"]
    /\ results' = [results EXCEPT ![t] = <<>>]
    /\ gps' = [gps EXCEPT ![t] = None]
    /\ geo' = [geo EXCEPT ![t] = NoResponse]
    /\ outcome' = [outcome EXCEPT ![t] = None]
    /\ calls' = [calls EXCEPT ![t] = <<>>]
    /\ UNCHANGED <<sideVars, ninst, engineVars, diskVars, saved, nreq, nfault>>

\* ------------------------------------------------------------ process death
\* the process is killed at any point; its memory is lost, the files stay
Crash(p) ==
    /\ nfault < MaxFaults
    /\ \E t \in Tasks : ProcOf(t) = p /\ pc[t] # "idle"
    /\ nfault' = nfault + 1
    /\ Forget(p)
    /\ pc' = [t \in Tasks |-> IF ProcOf(t) = p THEN "idle" ELSE pc[t]]
    /\ op' = [t \in Tasks |-> IF ProcOf(t) = p THEN NoOp ELSE op[t]]
    /\ ret' = [t \in Tasks |-> IF ProcOf(t) = p THEN "none" ELSE ret[t]]
    /\ results' = [t \in Tasks |-> IF ProcOf(t) = p THEN <<>> ELSE results[t]]
    /\ gps' = [t \in Tasks |-> IF ProcOf(t) = p THEN None ELSE gps[t]]
    /\ geo' = [t \in Tasks |-> IF ProcOf(t) = p THEN NoResponse ELSE geo[t]]
    /\ outcome' = [t \in Tasks |-> IF ProcOf(t) = p THEN None ELSE outcome[t]]
    /\ calls' = [t \in Tasks |-> IF ProcOf(t) = p THEN <<>> ELSE calls[t]]
    /\ ninst' = [ninst EXCEPT ![p] = 0]
    /\ running' = [running EXCEPT ![p] = "none"]
    /\ UNCHANGED <<sideVars, diskVars, saved, nreq>>

Next ==
    \/ \E t \in Tasks : Request(t)
    \/ \E t \in Tasks : Start(t)
    \/ \E t \in Tasks : Resume(t)
    \/ \E t \in Tasks : LoadCheck(t)
    \/ \E t \in Tasks : LoadIndex(t)
    \/ \E t \in Tasks : LoadMeta(t)
    \/ \E t \in Tasks : AddCheck(t)
    \/ \E t \in Tasks : IndexAdd(t)
    \/ \E t \in Tasks : MetaAppend(t)
    \/ \E t \in Tasks : SaveIndex(t)
    \/ \E t \in Tasks : SaveMeta(t)
    \/ \E t \in Tasks : SearchStep(t)
    \/ \E t \in Tasks : BestStep(t)
    \/ \E t \in Tasks : Return(t)
    \/ \E p \in Procs : Crash(p)

Spec == Init /\ [][Next]_vars

\* the recognition service: /recognize and the feedback uploads
NextRecognize ==
    \/ \E t \in Tasks : RequestRecognize(t)
    \/ \E t \in Tasks : Start(t)
    \/ \E t \in Tasks : Resume(t)
    \/ \E t \in Tasks : ResolveGps(t)
    \/ \E t \in Tasks : GeoLookup(t)
    \/ \E t \in Tasks : VisualStage(t)
    \/ \E t \in Tasks : LoadCheck(t)
    \/ \E t \in Tasks : LoadIndex(t)
    \/ \E t \in Tasks : LoadMeta(t)
    \/ \E t \in Tasks : EmbedStep(t)
    \/ \E t \in Tasks : MatchStep(t)
    \/ \E t \in Tasks : AddCheck(t)
    \/ \E t \in Tasks : IndexAdd(t)
    \/ \E t \in Tasks : MetaAppend(t)
    \/ \E t \in Tasks : SaveIndex(t)
    \/ \E t \in Tasks : SaveMeta(t)
    \/ \E t \in Tasks : Return(t)
    \/ \E p \in Procs : Crash(p)

SpecRecognize == Init /\ [][NextRecognize]_vars

\* the feedback service: /feedback/upload and /recognize
NextFeedback ==
    \/ \E t \in Tasks : RequestFeedback(t)
    \/ \E t \in Tasks : Start(t)
    \/ \E t \in Tasks : Resume(t)
    \/ \E t \in Tasks : ResolveGps(t)
    \/ \E t \in Tasks : VisualStage(t)
    \/ \E t \in Tasks : EmbedStep(t)
    \/ \E t \in Tasks : MatchStep(t)
    \/ \E t \in Tasks : ResolveLandmark(t)
    \/ \E t \in Tasks : SaveImage(t)
    \/ \E t \in Tasks : UpdateIndex(t)
    \/ \E t \in Tasks : UploadEmbed(t)
    \/ \E t \in Tasks : LoadCheck(t)
    \/ \E t \in Tasks : LoadIndex(t)
    \/ \E t \in Tasks : LoadMeta(t)
    \/ \E t \in Tasks : AddCheck(t)
    \/ \E t \in Tasks : IndexAdd(t)
    \/ \E t \in Tasks : MetaAppend(t)
    \/ \E t \in Tasks : SaveIndex(t)
    \/ \E t \in Tasks : SaveMeta(t)
    \/ \E t \in Tasks : UploadRespond(t)
    \/ \E t \in Tasks : Return(t)
    \/ \E p \in Procs : Crash(p)

SpecFeedback == Init /\ [][NextFeedback]_vars

\* ------------------------------------------------------------ Geocoder over time
\* one reverse_geocode call on the process-wide Geocoder, some time after the
\* previous one: the rate-limit sleep, the request, and the stamp
ReverseGeocodeCall ==
    /\ ncalls < MaxCalls
    /\ ncalls' = ncalls + 1
    /\ \E gap \in Gaps, lat \in Latencies, resp \in Responses :
          LET out == SendTime(now + gap, lastRequestTime)
              back == out + lat
          IN /\ sent' = IF sent = <<>> THEN <<out>> ELSE <<sent[Len(sent)], out>>
             /\ now' = back
             /\ lastRequestTime' = IF Stamped(resp) THEN back ELSE lastRequestTime
    /\ UNCHANGED <<serviceVars, nameVars, dbVars>>

NextGeocoder == ReverseGeocodeCall

\* ------------------------------------------------------------ /landmarks/add
\* norm = normalize_name(name)
NormalizeStep ==
    /\ namePc = "request"
    /\ normName' = NormalizeChars(rawName)
    /\ namePc' = "normalized"
    /\ UNCHANGED <<serviceVars, clockVars, dbVars, rawName, storedName>>

\* landmark = crud.create_landmark(db, norm, description), on an empty table:
\* normalized_name = normalize_name(name); Landmark(name=normalized_name)
CreateLandmarkStep ==
    /\ namePc = "normalized"
    /\ storedName' = NormalizeChars(normName)
    /\ namePc' = "created"
    /\ UNCHANGED <<serviceVars, clockVars, dbVars, rawName, normName>>

NextNames == NormalizeStep \/ CreateLandmarkStep

\* one /landmarks/add request for every name of the bounded input set
InitNames ==
    /\ ServiceInit
    /\ rawName \in NameInputs
    /\ normName = <<>>
    /\ storedName = <<>>
    /\ namePc = "request"

SpecNames == InitNames /\ [][NextNames]_vars

SpecGeocoder == Init /\ [][NextGeocoder]_vars

\* the steps of the handler that serves task t: the event loop runs every
\* coroutine that can run, and each of its calls returns (requests.get has a
\* timeout, the rate limiter sleeps at most min_interval)
Handler(t) ==
    \/ Start(t) \/ Resume(t)
    \/ ResolveGps(t) \/ GeoLookup(t) \/ VisualStage(t)
    \/ LoadCheck(t) \/ LoadIndex(t) \/ LoadMeta(t)
    \/ EmbedStep(t) \/ MatchStep(t)
    \/ AddCheck(t) \/ IndexAdd(t) \/ MetaAppend(t) \/ SaveIndex(t) \/ SaveMeta(t)
    \/ Return(t)

\* the same service under a smaller request budget, with fair scheduling
RequestFair(t) == nreq < MaxFairRequests /\ RequestOf(t, RecognizeOps)

NextRecognizeFair ==
    \/ \E t \in Tasks : RequestFair(t)
    \/ \E t \in Tasks : Start(t)
    \/ \E t \in Tasks : Resume(t)
    \/ \E t \in Tasks : ResolveGps(t)
    \/ \E t \in Tasks : GeoLookup(t)
    \/ \E t \in Tasks : VisualStage(t)
    \/ \E t \in Tasks : LoadCheck(t)
    \/ \E t \in Tasks : LoadIndex(t)
    \/ \E t \in Tasks : LoadMeta(t)
    \/ \E t \in Tasks : EmbedStep(t)
    \/ \E t \in Tasks : MatchStep(t)
    \/ \E t \in Tasks : AddCheck(t)
    \/ \E t \in Tasks : IndexAdd(t)
    \/ \E t \in Tasks : MetaAppend(t)
    \/ \E t \in Tasks : SaveIndex(t)
    \/ \E t \in Tasks : SaveMeta(t)
    \/ \E t \in Tasks : Return(t)
    \/ \E p \in Procs : Crash(p)

SpecRecognizeFair ==
    Init /\ [][NextRecognizeFair]_vars /\ \A t \in Tasks : WF_vars(Handler(t))

\* what _load_database makes of the two files when nothing writes meanwhile
LoadPair ==
    IF idxFile.st # "absent" /\ metaFile.st # "absent"
    THEN IF idxFile.st = "ok" /\ metaFile.st = "ok"
         THEN <<idxFile.data, metaFile.data>>
         ELSE << <<>>, <<>> >>
    ELSE << <<>>, <<>> >>

\* ------------------------------------------------------------ properties
InCatalog(p, n) == \E i \in 1..Len(metadata[p]) : metadata[p][i].place_name = n
AddSection == {"add_check", "add_index", "add_meta", "save_index", "save_meta",
               "add_return"}
\* no handler of the process holds the thread: the engine is between operations
Quiescent(p) == constructed[p] /\ running[p] = "none"

\* C1: an add_landmark of a valid embedding for a place name that is already in
\* the catalog returns without error and changes neither the index, the
\* catalog nor the files (first write wins).
C1_DedupNoOp ==
    [][\A t \in Tasks :
         (/\ pc[t] = "add_check"
          /\ op[t].emb.dim = Dimension
          /\ InCatalog(ProcOf(t), op[t].name)
          /\ pc'[t] # "add_check"
          /\ nfault' = nfault)
         => (/\ pc'[t] = "add_return"
             /\ ret'[t] = "skipped"
             /\ UNCHANGED <<index, metadata, idxFile, metaFile>>)]_vars

\* a second add for a stored place, with another vector and another path, has
\* returned as a no-op
C1_Witness ==
    \E t \in Tasks :
        /\ pc[t] = "add_return" /\ ret[t] = "skipped"
        /\ \E i \in 1..Len(metadata[ProcOf(t)]) :
              /\ metadata[ProcOf(t)][i].place_name = op[t].name
              /\ metadata[ProcOf(t)][i].image_path # op[t].path
              /\ i <= Len(index[ProcOf(t)])
              /\ index[ProcOf(t)][i] # op[t].emb.dir

\* C2 (I2): no two distinct catalog entries have the same place name, in every
\* state reachable by any interleaving of handlers that call add_landmark.
C2_UniquePlaceNames ==
    \A p \in Procs : \A i, j \in 1..Len(metadata[p]) :
        i # j => metadata[p][i].place_name # metadata[p][j].place_name

\* two handlers are in flight with adds for the same place; one has appended
C2_Witness ==
    \E t, u \in Tasks :
        /\ t # u
        /\ pc[t] = "add_return" /\ ret[t] = "added"
        /\ pc[u] = "ready" /\ op[u].kind = "add" /\ op[u].name = op[t].name

\* C3 (I3): the ordinal recorded in a catalog entry is its position in the
\* catalog (and so the position of its vector in the index).
C3_OrdinalIsPosition ==
    \A p \in Procs : \A i \in 1..Len(metadata[p]) : metadata[p][i].index = i - 1

\* C4: between operations the index holds as many vectors as the catalog has
\* entries.
C4_Aligned ==
    \A p \in Procs : Quiescent(p) => Len(index[p]) = Len(metadata[p])

\* C5 (I4): a load only ever observes a pair of files that one save wrote as
\* a unit.
C5_AtomicPair ==
    \A p \in Procs :
        loaded[p].branch = "loaded"
        => <<loaded[p].index, loaded[p].metadata>> \in saved

\* C6: the dedup check, the two appends and the save of one add_landmark are
\* one atomic step for the other handlers: no two handlers are inside
\* add_landmark at once.
C6_WritersExclusive ==
    \A t, u \in Tasks :
        (t # u /\ ProcOf(t) = ProcOf(u)) => ~(pc[t] \in AddSection /\ pc[u] \in AddSection)

\* an add for a new place is between its appends while another add for the
\* same place is waiting for the loop
C6_Witness ==
    \E t, u \in Tasks :
        /\ t # u
        /\ pc[t] = "add_meta"
        /\ pc[u] = "ready" /\ op[u].kind = "add" /\ op[u].name = op[t].name

\* C7: a search never runs while an add is between its appends, and every
\* result joins the vector at position idx with the catalog entry whose ordinal
\* is idx.
C7_ReaderSeesConsistentPair ==
    \A t \in Tasks :
        /\ pc[t] = "search"
           => \A u \in Tasks : pc[u] \notin {"add_index", "add_meta"}
        /\ pc[t] = "search_return"
           => \A n \in 1..Len(results[t]) :
                 results[t][n].metadata.index = results[t][n].idx

\* C8: when add_landmark has appended and returns normally, the files hold the
\* in-memory pair.
C8_WriteThrough ==
    \A t \in Tasks :
        (pc[t] = "add_return" /\ ret[t] = "added")
        => (idxFile = File(index[ProcOf(t)]) /\ metaFile = File(metadata[ProcOf(t)]))

\* C9: between operations, a fresh engine that loads the files gets the index
\* and the catalog of the running engine, and so the same search results.
C9_RoundTrip ==
    \A p \in Procs :
        Quiescent(p)
        => /\ LoadPair = <<index[p], metadata[p]>>
           /\ \A q \in Dirs, k \in Ks :
                 Search(LoadPair[1], LoadPair[2], q, k) = Search(index[p], metadata[p], q, k)

\* C10: a load starts empty or accepts a structurally consistent pair: it never
\* takes an index and a catalog of different lengths as the engine's state.
C10_LoadRejectsInconsistent ==
    \A p \in Procs :
        /\ loaded[p].branch = "loaded"
           => Len(loaded[p].index) = Len(loaded[p].metadata)
        /\ loaded[p].branch \in {"created", "error"}
           => (loaded[p].index = <<>> /\ loaded[p].metadata = <<>>)

\* the results a finished search or get_best_match call handed back
Answered(t) == pc[t] = "search_return" /\ ret[t] = "ok"

\* C11: add_landmark with an embedding whose length is not D raises the
\* dimension error and changes neither index, catalog nor files, whether or not
\* the place name is stored.
C11_AddRejectsWrongDimension ==
    [][\A t \in Tasks :
         (/\ pc[t] = "add_check"
          /\ op[t].emb.dim # Dimension
          /\ pc'[t] # "add_check"
          /\ nfault' = nfault)
         => (/\ pc'[t] = "add_return"
             /\ ret'[t] = "ValueError"
             /\ UNCHANGED <<index, metadata, idxFile, metaFile>>)]_vars

\* a wrong-length add for a stored place name was rejected
C11_Witness ==
    \E t \in Tasks :
        /\ pc[t] = "add_return" /\ ret[t] = "ValueError"
        /\ op[t].emb.dim # Dimension
        /\ InCatalog(ProcOf(t), op[t].name)

\* C12: search and get_best_match with a query whose length is not D fail,
\* in every index state including the empty one.
C12_SearchRejectsWrongDimension ==
    \A t \in Tasks :
        (pc[t] = "search_return" /\ op[t].emb.dim # Dimension) => ret[t] # "ok"

\* C13: search returns at most k results, exactly min(k, size) when index and
\* catalog have the same length, in ascending distance and non-increasing
\* confidence.
C13_AtMostKOrdered ==
    \A t \in Tasks :
        (Answered(t) /\ op[t].kind = "search")
        => LET p == ProcOf(t)
               res == results[t]
           IN /\ Len(res) <= op[t].k
              /\ Len(index[p]) = Len(metadata[p])
                 => Len(res) = Min(op[t].k, Len(index[p]))
              /\ \A n \in 1..(Len(res) - 1) :
                    /\ res[n].distance <= res[n + 1].distance
                    /\ res[n].confidence >= res[n + 1].confidence

\* two results came back, the nearer one stored later than the farther one
C13_Witness ==
    \E t \in Tasks :
        /\ Answered(t) /\ op[t].kind = "search"
        /\ Len(results[t]) = 2
        /\ results[t][1].distance < results[t][2].distance
        /\ results[t][1].idx > results[t][2].idx

C15_EmptyIndex ==
    \A t \in Tasks :
        (pc[t] = "search_return" /\ Len(index[ProcOf(t)]) = 0)
        => (ret[t] = "ok" /\ results[t] = <<>>)

\* a search with a vector of another width came back from an empty index
C15_Witness ==
    \E t \in Tasks :
        /\ pc[t] = "search_return" /\ op[t].kind = "search"
        /\ constructed[ProcOf(t)] /\ Len(index[ProcOf(t)]) = 0
        /\ op[t].emb.dim # Dimension

\* what search(v, 1) answers right after the add_landmark(v, P, ref) of task t
\* has returned
SearchAfterAdd(t) == Search(index[ProcOf(t)], metadata[ProcOf(t)], op[t].emb.dir, 1)

\* every result is P at distance 0 with confidence 1
OnlyItself(t) ==
    \A n \in 1..Len(SearchAfterAdd(t)) :
        /\ SearchAfterAdd(t)[n].place_name = op[t].name
        /\ SearchAfterAdd(t)[n].distance = 0
        /\ SearchAfterAdd(t)[n].confidence = 1000

FoundItself(t) == Len(SearchAfterAdd(t)) = 1 /\ OnlyItself(t)

\* C16 as stated: for every valid v and every prior state, add_landmark(v, P,
\* ref) followed by search(v, 1) returns exactly one result, P at distance 0
\* with confidence 1.
C16_AddThenSearchAnyState ==
    \A t \in Tasks :
        (pc[t] = "add_return" /\ ret[t] \in {"added", "skipped"}) => FoundItself(t)

\* C16 as amended: when P is not stored and no stored vector equals v,
\* add_landmark(v, P, ref) followed by search(v, 1) returns at most one result,
\* which is P at distance 0 with confidence 1, and exactly one when index and
\* catalog have the same length.
C16_AddThenSearchNewPlace ==
    \A t \in Tasks :
        LET p == ProcOf(t) IN
        (/\ pc[t] = "add_return" /\ ret[t] = "added"
         /\ \A i \in 1..(Len(index[p]) - 1) : index[p][i] # op[t].emb.dir)
        => /\ Len(SearchAfterAdd(t)) <= 1
           /\ OnlyItself(t)
           /\ Len(index[p]) = Len(metadata[p]) => FoundItself(t)

\* a new place was appended behind another stored vector
C16_Witness ==
    \E t \in Tasks :
        LET p == ProcOf(t) IN
        /\ pc[t] = "add_return" /\ ret[t] = "added"
        /\ Len(index[p]) = Len(metadata[p])
        /\ Len(index[p]) = 2
        /\ index[p][1] # op[t].emb.dir

\* C17: every result carries confidence = clamp(1 - d/2, 0, 1) of its squared
\* distance d, so the confidence is within [0, 1] and the distance is >= 0.
C17_ConfidenceClamped ==
    \A t \in Tasks :
        Answered(t)
        => \A n \in 1..Len(results[t]) :
              LET d == results[t][n].distance
                  c == results[t][n].confidence
              IN /\ d >= 0
                 /\ c >= 0 /\ c <= 1000
                 /\ c = Min(1000, Max(0, 1000 - (d \div 2)))

\* a result beyond distance 2, where 1 - d/2 is negative
C17_Witness ==
    \E t \in Tasks :
        /\ Answered(t)
        /\ \E n \in 1..Len(results[t]) :
              /\ results[t][n].distance > 2000
              /\ results[t][n].confidence = 0

\* a recognize request whose coordinates have been resolved
Resolved(t) ==
    /\ op[t].kind = "recognize"
    /\ pc[t] \notin {"ready", "await_read", "resolve_gps"}

\* the provider's answer carries a name
Named(resp) ==
    /\ resp.status = "ok"
    /\ resp.tourism # "" \/ (resp.display # <<>> /\ resp.display[1] # "")

\* C18: when the caller supplies both latitude and longitude, the resolved
\* coordinates are exactly that pair and EXIF is not used; when neither the
\* caller nor EXIF gives coordinates, they are none.
C18_CallerCoordinatesFirst ==
    \A t \in Tasks :
        Resolved(t)
        => /\ (op[t].lat # None /\ op[t].lon # None)
              => /\ gps[t] = <<[lat |-> op[t].lat[1], lon |-> op[t].lon[1]]>>
                 /\ \A n \in 1..Len(calls[t]) : calls[t][n] # "exif"
           /\ (op[t].lat = None /\ op[t].lon = None /\ ExifGps(op[t].path) = None)
              => gps[t] = None

\* C19: when coordinates are resolved and reverse geocoding returns a
\* non-empty place name, recognize ends with source gps, that name, confidence
\* 0.95 and the resolved coordinates, and neither the embedder nor the engine
\* is consulted.
C19_GpsFirst ==
    \A t \in Tasks :
        (Resolved(t) /\ gps[t] # None /\ Named(geo[t]))
        => /\ pc[t] = "recognize_return"
           /\ ret[t] = "ok"
           /\ Len(outcome[t]) = 1
           /\ outcome[t][1].source = "gps"
           /\ outcome[t][1].place_name =
                 (IF geo[t].tourism # "" THEN geo[t].tourism ELSE geo[t].display[1])
           /\ outcome[t][1].confidence = 950
           /\ outcome[t][1].coordinates = gps[t]
           /\ \A n \in 1..Len(calls[t]) : calls[t][n] \notin {"embedder", "engine"}

\* a gps outcome for an image whose own vector is stored in the index
C19_Witness ==
    \E t \in Tasks :
        /\ pc[t] = "recognize_return"
        /\ outcome[t] # None /\ outcome[t][1].source = "gps"
        /\ \E i \in 1..Len(index[ProcOf(t)]) : index[ProcOf(t)][i] = op[t].emb.dir

\* C20: when coordinates are present but reverse geocoding fails, returns
\* nothing or returns an empty place name, recognize does not fail there and
\* goes on to the visual stage.
C20_GeocodingDegrades ==
    \A t \in Tasks :
        (Resolved(t) /\ gps[t] # None /\ geo[t].status # "none" /\ ~Named(geo[t]))
        => /\ pc[t] \in {"visual", "load_check", "load_index", "load_meta",
                         "embed", "match", "recognize_return"}
           /\ pc[t] = "recognize_return"
              => /\ \E n \in 1..Len(calls[t]) : calls[t][n] = "embedder"
                 /\ outcome[t] # None => outcome[t][1].source = "visual"

\* a request went through the visual stage to its response after the
\* provider timed out
C20_Witness ==
    \E t \in Tasks :
        /\ pc[t] = "recognize_return" /\ ret[t] = "ok"
        /\ gps[t] # None /\ geo[t].status = "timeout"
        /\ outcome[t][1].source = "visual"

\* a recognize request that got its response from the visual stage
VisualDone(t) ==
    /\ op[t].kind = "recognize"
    /\ pc[t] = "recognize_return" /\ ret[t] = "ok"
    /\ \E n \in 1..Len(calls[t]) : calls[t][n] = "engine"

\* C21: when recognize reaches visual search, the outcome has source visual and
\* the coordinates resolved in step 1 (possibly none); it carries the match's
\* place name and confidence when get_best_match returns a match, and
\* "Unknown" with confidence 0 when it returns none.
C21_VisualOutcome ==
    \A t \in Tasks :
        VisualDone(t)
        => LET p == ProcOf(t)
               best == GetBestMatch(index[p], metadata[p], op[t].emb.dir, 600)
           IN /\ Len(outcome[t]) = 1
              /\ outcome[t][1].source = "visual"
              /\ outcome[t][1].coordinates = gps[t]
              /\ best # None
                 => /\ outcome[t][1].place_name = best[1].place_name
                    /\ outcome[t][1].confidence = best[1].confidence
              /\ best = None
                 => /\ outcome[t][1].place_name = "Unknown"
                    /\ outcome[t][1].confidence = 0

\* a visual match returned together with resolved coordinates
C21_Witness ==
    \E t \in Tasks :
        /\ VisualDone(t)
        /\ gps[t] # None
        /\ outcome[t][1].place_name \in Names

\* sequence a is kept as the beginning of sequence b
KeptIn(a, b) == Len(a) <= Len(b) /\ \A i \in 1..Len(a) : b[i] = a[i]

\* C23: within a process the index is append-only: over every step of every
\* operation its size does not decrease and every stored vector and catalog
\* entry stays what and where it was.
C23_AppendOnly ==
    [][\A p \in Procs :
         (constructed[p] /\ constructed'[p])
         => /\ KeptIn(index[p], index'[p])
            /\ KeptIn(metadata[p], metadata'[p])]_vars

\* a second entry was appended behind the first
C23_Witness ==
    \E t \in Tasks :
        /\ pc[t] = "add_return" /\ ret[t] = "added"
        /\ Len(index[ProcOf(t)]) >= 2
        /\ Len(metadata[ProcOf(t)]) >= 2

\* C30: search, get_best_match and recognize, on every path, leave the
\* persisted files unchanged and leave index and catalog of the live engine
\* unchanged (a first use only loads what the files hold).
C30_ReadsAreSideEffectFree ==
    [][\A t \in Tasks :
         (/\ op[t].kind \in {"recognize", "search", "best"}
          /\ pc'[t] # pc[t]
          /\ nfault' = nfault)
         => LET p == ProcOf(t) IN
            /\ idxFile' = idxFile /\ metaFile' = metaFile
            /\ constructed[p] => (index'[p] = index[p] /\ metadata'[p] = metadata[p])
            /\ (~constructed[p] /\ constructed'[p])
               => <<index'[p], metadata'[p]>> \in
                     {<< <<>>, <<>> >>, <<idxFile.data, metaFile.data>>}]_vars

\* a visual match was returned by a request that found stored landmarks
C30_Witness ==
    \E t \in Tasks :
        /\ VisualDone(t)
        /\ outcome[t][1].confidence >= 600
        /\ idxFile.st = "ok" /\ Len(idxFile.data) >= 1
        /\ index[ProcOf(t)] = idxFile.data

\* C24: the engine singleton is created lazily and exactly once per process:
\* whatever the interleaving of the handlers that call get_search_engine, at
\* most one ImageSearch is ever created, and once it exists it is the one
\* every caller gets.
C24_SingletonOnce ==
    \A p \in Procs :
        /\ ninst[p] <= 1
        /\ constructed[p] => ninst[p] = 1

\* a handler got the engine that another request had created, while a third
\* request was suspended
C24_Witness ==
    \E t \in Tasks :
        /\ pc[t] \in {"embed", "add_check"}
        /\ \A n \in 1..Len(calls[t]) : calls[t][n] # "ImageSearch"
        /\ ninst[ProcOf(t)] = 1
        /\ \E u \in Tasks : u # t /\ pc[u] = "await_read"

\* no collaborator appears twice in the log
OnceEach(log) == \A i, j \in 1..Len(log) : log[i] = log[j] => i = j

\* the request ended with a complete response, or with the error and nothing else
Ended(t) ==
    /\ pc[t] = "recognize_return"
    /\ \/ /\ ret[t] = "ok"
          /\ Len(outcome[t]) = 1
          /\ outcome[t][1].source \in {"gps", "visual"}
          /\ outcome[t][1].place_name # ""
       \/ /\ ret[t] = "HTTP500"
          /\ outcome[t] = <<>>

\* C22: every recognize request terminates: it ends with a complete outcome
\* or with the single generic error and no outcome (or its process dies), and
\* on the way each collaborator is invoked at most once.
C22_Terminates ==
    /\ \A t \in Tasks :
          [](op[t].kind = "recognize"
             => /\ OnceEach(calls[t])
                /\ pc[t] = "recognize_return" => Ended(t))
    /\ \A t \in Tasks :
          (op[t].kind = "recognize" /\ pc[t] = "ready") ~> (Ended(t) \/ pc[t] = "idle")

\* a request aborted with the error after the geocoder and the embedder had
\* been tried once each
C22_Witness ==
    \E t \in Tasks :
        /\ op[t].kind = "recognize"
        /\ pc[t] = "recognize_return" /\ ret[t] = "HTTP500"
        /\ \E n \in 1..Len(calls[t]) : calls[t][n] = "geocoder"
        /\ \E n \in 1..Len(calls[t]) : calls[t][n] = "embedder"

\* C27: any two consecutive requests to the provider made through one Geocoder
\* are at least min_interval apart, whatever the outcome of the calls.
C27_RateLimit ==
    Len(sent) = 2 => sent[2] - sent[1] >= 1000

\* C28: the name create_landmark stores equals the normalized name the
\* endpoint computed, i.e. normalize_name returns an already-normalized name
\* unchanged.
C28_NormalizeIdempotent ==
    namePc = "created" => storedName = normName

\* the pcs of a handler that is inside the engine or its embedder
EngineStages == {"load_check", "load_index", "load_meta", "upload_embed"} \cup AddSection

\* an upload with neither landmark_id nor landmark_name
Placeholder(t) ==
    /\ op[t].kind = "upload"
    /\ op[t].lid = <<>> /\ op[t].lname = <<>>

\* C25: a feedback upload without landmark_id and landmark_name skips the
\* index update: it never reaches the embedder or the engine.
C25_PlaceholderSkipsIndex ==
    \A t \in Tasks : Placeholder(t) => pc[t] \notin EngineStages

\* the image of the upload of task t is on disk and has its record
Stored(t) ==
    /\ op[t].image_id \in 1..Len(images)
    /\ images[op[t].image_id] = [landmark_id |-> op[t].landmark_id, path |-> op[t].path]
    /\ \E f \in imageFiles : f.path = op[t].path

\* C26: the image file and its record are stored before the index update is
\* attempted, and an upload whose image was stored returns status success
\* with that image_id whatever became of the embedding and the index update.
C26_UploadAlwaysSaves ==
    \A t \in Tasks :
        op[t].kind = "upload"
        => /\ pc[t] \in EngineStages \cup {"update_index", "upload_respond"} => Stored(t)
           /\ (pc[t] = "upload_return" /\ op[t].image_id # 0)
              => /\ Stored(t)
                 /\ outcome[t] = <<[status |-> "success",
                                    landmark_id |-> op[t].landmark_id,
                                    image_id |-> op[t].image_id]>>
           /\ (pc[t] = "upload_return" /\ op[t].image_id = 0)
              => (ret[t] = "HTTP500" /\ outcome[t] = <<>>)

\* an upload answered success although its embedding failed
C26_Witness ==
    \E t \in Tasks :
        /\ op[t].kind = "upload"
        /\ pc[t] = "upload_return" /\ ret[t] = "embed_failed"
        /\ outcome[t] # <<>> /\ outcome[t][1].status = "success"
        /\ Stored(t)

\* C29: a visual outcome has confidence 0 with place name "Unknown", or a
\* confidence of at least 0.6 with the name of a landmark; "Unknown" never
\* comes with a confidence other than 0.
C29_UnknownHasNoConfidence ==
    \A t \in Tasks :
        (VisualDone(t) /\ outcome[t][1].source = "visual")
        => \/ outcome[t][1].confidence = 0 /\ outcome[t][1].place_name = "Unknown"
           \/ outcome[t][1].confidence >= 600 /\ outcome[t][1].place_name # "Unknown"
====
